---- MODULE Spec2Model ----
(***************************************************************************)
(* Model of the ktest statistic engine (src/src/ktest/statistics.py) and   *)
(* of its centering / weighting algebra                                    *)
(* (src/src/ktest/centering_operations.py).                                *)
(*                                                                         *)
(* Numbers.  torch / numpy float64 values are modelled as extended         *)
(* rationals <<num, den>> with den >= 0 and gcd(|num|, den) = 1:           *)
(*   den > 0      the finite value num/den                                 *)
(*   <<1, 0>>     +inf     <<-1, 0>>   -inf     <<0, 0>>   nan             *)
(* so that a division by a zero eigenvalue and inf * 0 behave as they do   *)
(* in IEEE arithmetic.  Rounding is not modelled: finite values are exact. *)
(*                                                                         *)
(* Optional arguments (t=None, name=None) are sequences of length <= 1:    *)
(* << >> is None, <<v>> is the value v.                                    *)
(***************************************************************************)
EXTENDS Integers, Sequences, FiniteSets, TLC

VARIABLES
    approximation_cov,        \* self.approximation_cov
    approximation_mmd,        \* self.approximation_mmd
    sizes,                    \* <<n1, n2>>   : self.get_n1n2n()
    landmark_sizes,           \* <<m1, m2>>   : self.get_n1n2n(landmarks=True)
    spev,                     \* self.spev['xy'] : key -> [sp, ev], and "anchors"
    anchors_basis,            \* self.anchors_basis
    gram_product,             \* the matrix-vector chain of compute_pkm, before its prefactor
    df_kfdat,                 \* self.df_kfdat
    df_kfdat_contributions,   \* self.df_kfdat_contributions
    last,                     \* the last operation called, its arguments and how it ended
    stdout,                   \* what the last operation printed
    args,                     \* the inputs of a call of a centering / weighting function
    returned,                 \* how that call ended and what it returned
    dict_mmd,                 \* self.dict_mmd
    sample_anchors,           \* the samples s among 'x', 'y' with 'anchors' in self.spev[s]
    ran                       \* the functions the last kfdat / mmd called, in order

vars == <<approximation_cov, approximation_mmd, sizes, landmark_sizes, spev,
          anchors_basis, gram_product, df_kfdat, df_kfdat_contributions, last, stdout,
          args, returned, dict_mmd, sample_anchors, ran>>

-----------------------------------------------------------------------------
(* Bounds of the model *)

MaxSp == 2        \* longest cached spectrum
MaxTotal == 3     \* largest n = n1 + n2
MaxGroup == 3     \* largest n1 and n2 of a weight vector
MaxObs == 4       \* longest label column and largest sum of a list of group sizes
MaxRows == 3      \* most observations of a metadata table
MaxTerms == 2     \* most terms of a combination of effects

(* Values the inputs are drawn from *)
EigVals == {2, 1, 0, -1}          \* eigenvalues of a cached spectrum
ProductVals == {0, 2}             \* entries of the unscaled product vector
RunNames == {"run"}               \* names a caller gives to a run
Nobody == << >>                   \* Python's None
Labels == {"u", "v", "w"}          \* categories of a label column
TwoLabels == {"u", "v"}           \* categories of a column of a metadata table
ColumnNames == {<<"A">>, <<"B">>} \* column names of a metadata table, as characters
LandmarkIds == {0, 1}             \* landmarks the observations are assigned to
AnchorBases == {"k", "K", "s", "S", "w", "W", "z"}   \* values of anchors_basis
RootWeights == {<<1, 1>>, <<1, 2>>}                \* square roots of quantization weights
Some(v) == <<v>>

-----------------------------------------------------------------------------
(* float64 arithmetic on extended rationals *)

Abs(i) == IF i < 0 THEN -i ELSE i

RECURSIVE GCD(_, _)
GCD(a, b) == IF b = 0 THEN a ELSE GCD(b, a % b)

Norm(num, den) ==
    LET s == IF den < 0 THEN -1 ELSE 1
        g == GCD(Abs(num), Abs(den))
    IN  IF g = 0 THEN <<0, 0>> ELSE <<(s * num) \div g, (s * den) \div g>>

Rat(i) == <<i, 1>>
NaN == <<0, 0>>
IsNaN(a) == a = NaN
IsFinite(a) == a[2] > 0

(* products are taken on cross-reduced terms, to keep the integers small *)
RMul(a, b) ==
    LET g1 == GCD(Abs(a[1]), b[2])
        g2 == GCD(Abs(b[1]), a[2])
    IN  IF g1 = 0 \/ g2 = 0 THEN Norm(a[1] * b[1], a[2] * b[2])
        ELSE Norm((a[1] \div g1) * (b[1] \div g2), (a[2] \div g2) * (b[2] \div g1))

RAdd(a, b) ==
    IF IsNaN(a) \/ IsNaN(b) THEN NaN
    ELSE IF a[2] = 0 /\ b[2] = 0 THEN (IF a = b THEN a ELSE NaN)
    ELSE IF a[2] = 0 THEN a
    ELSE IF b[2] = 0 THEN b
    ELSE LET g == GCD(a[2], b[2])
         IN  Norm(a[1] * (b[2] \div g) + b[1] * (a[2] \div g), (a[2] \div g) * b[2])

RInv(a) ==
    IF IsNaN(a) THEN NaN
    ELSE IF a[1] > 0 THEN <<a[2], a[1]>>
    ELSE IF a[1] < 0 THEN <<-a[2], -a[1]>>
    ELSE <<1, 0>>

RDiv(a, b) == RMul(a, RInv(b))

RECURSIVE RPow(_, _)
RPow(a, e) == IF e = 0 THEN Rat(1) ELSE RMul(a, RPow(a, e - 1))

RECURSIVE IPow(_, _)
IPow(i, e) == IF e = 0 THEN 1 ELSE i * IPow(i, e - 1)

(* a >= 0 as float64 compares it: false for nan *)
RGeqZero(a) == (a[2] > 0 /\ a[1] >= 0) \/ (a[2] = 0 /\ a[1] > 0)

(* a <= b as float64 compares it: false when either is nan *)
RLeq(a, b) ==
    /\ ~IsNaN(a) /\ ~IsNaN(b)
    /\ IF a[2] = 0 /\ b[2] = 0 THEN a[1] <= b[1]
       ELSE IF a[2] = 0 THEN a[1] < 0
       ELSE IF b[2] = 0 THEN b[1] > 0
       ELSE a[1] * b[2] <= b[1] * a[2]

(* torch.dot / one row of torch.mv *)
RECURSIVE dot(_, _)
dot(u, v) ==
    IF Len(u) = 0 THEN Rat(0)
    ELSE RAdd(RMul(u[1], v[1]), dot(Tail(u), Tail(v)))

(* torch.mv(M, v), M a sequence of rows *)
mv(M, v) == [i \in 1..Len(M) |-> dot(M[i], v)]

(* M.T for a square matrix given as a sequence of rows *)
Transpose(M) == [j \in 1..Len(M) |-> [i \in 1..Len(M) |-> M[i][j]]]

(* x[:t] for t >= 0 : never an error, at most Len(x) entries *)
Slice(x, t) == SubSeq(x, 1, IF t < Len(x) THEN t ELSE Len(x))

-----------------------------------------------------------------------------
(* pandas: Series and DataFrame, as far as compute_kfdat uses them *)

(* pd.Series(data, index=index): the lengths must agree *)
Series(data, index) ==
    IF Len(data) = Len(index)
    THEN [status |-> "ok", values |-> data]
    ELSE [status |-> "ValueError", values |-> << >>]

(* pd.DataFrame(): no row, no column.  A frame is its row index 1..index and *)
(* its columns, each a sequence of `index` values.                           *)
EmptyFrame == [index |-> 0, columns |-> << >>]

Columns(df) == DOMAIN df.columns

(* df[name] = series, the series indexed 1..Len(values).  A frame with no row *)
(* takes the index of a non-empty series; otherwise the series is reindexed   *)
(* on the frame's index: levels the frame lacks are dropped, levels the       *)
(* series lacks are filled with nan.                                          *)
Reindex(values, k) == [i \in 1..k |-> IF i <= Len(values) THEN values[i] ELSE NaN]

(* a variant of SetItem that refuses to overwrite a column *)
SetItem_blocking(df, name, values) ==
    IF name \in Columns(df) THEN df
    ELSE LET k == IF df.index = 0 /\ Len(values) > 0 THEN Len(values) ELSE df.index
         IN  [index   |-> k,
              columns |-> [c \in Columns(df) \cup {name} |->
                             IF c = name THEN Reindex(values, k)
                             ELSE Reindex(df.columns[c], k)]]

SetItem(df, name, values) ==
    LET k == IF df.index = 0 /\ Len(values) > 0 THEN Len(values) ELSE df.index
    IN  [index   |-> k,
         columns |-> [c \in Columns(df) \cup {name} |->
                        IF c = name THEN Reindex(values, k)
                        ELSE Reindex(df.columns[c], k)]]

(* numpy cumsum *)
RECURSIVE prefix_sum(_, _)
prefix_sum(x, i) == IF i = 1 THEN x[1] ELSE RAdd(prefix_sum(x, i - 1), x[i])

(* a variant of cumsum that leaves the values as they are *)
cumsum_not_summed(x) == x

cumsum(x) == [i \in 1..Len(x) |-> prefix_sum(x, i)]

-----------------------------------------------------------------------------
(* statistics.py : compute_pkm *)

CovModes == {"standard", "nystrom1", "nystrom2", "nystrom3", "quantization"}
MmdModes == {"standard", "nystrom", "nystrom1", "nystrom2", "nystrom3", "quantization"}

(* 'nystrom' in s, for s one of the mode words *)
nystrom_in(s) == s \in {"nystrom", "nystrom1", "nystrom2", "nystrom3"}

(* cov_anchors = 'shared' # pas termine *)
cov_anchors == "shared"

(* The branch of compute_pkm that (cov, mmd) selects: whether it assigns pkm, *)
(* the power p of its prefactor 1/m**p, and the locals it reads among         *)
(* m, Uz (with Lz), Kzx.                                                      *)
NoBranch == [assigned |-> FALSE, power |-> 0, reads |-> {}]
Branch(p, r) == [assigned |-> TRUE, power |-> p, reads |-> r]

pkm_branch(cov, mmd) ==
    IF cov = "standard" THEN
        IF mmd = "standard" THEN Branch(0, {})
        ELSE IF mmd = "nystrom" THEN Branch(1, {"m", "Kzx", "Uz"})
        ELSE IF mmd = "quantization" THEN Branch(0, {"Kzx"})
        ELSE NoBranch
    ELSE IF cov = "nystrom1" /\ cov_anchors = "shared" THEN
        IF mmd \in {"standard", "nystrom"} THEN Branch(2, {"m", "Kzx", "Uz"})
        ELSE IF mmd = "quantization" THEN Branch(2, {"m", "Kzx", "Uz"})
        ELSE NoBranch
    ELSE IF cov = "nystrom2" /\ cov_anchors = "shared" THEN
        IF mmd \in {"standard", "nystrom"} THEN Branch(3, {"m", "Kzx", "Uz"})
        ELSE IF mmd = "quantization" THEN Branch(3, {"m", "Kzx", "Uz"})
        ELSE NoBranch
    ELSE IF cov = "nystrom3" /\ cov_anchors = "shared" THEN
        IF mmd \in {"standard", "nystrom"} THEN Branch(1, {"m", "Kzx", "Uz"})
        ELSE IF mmd = "quantization" THEN Branch(2, {"m", "Kzx", "Uz"})
        ELSE NoBranch
    ELSE IF cov = "quantization" THEN
        IF mmd = "standard" THEN Branch(0, {"Kzx"})
        ELSE IF mmd = "nystrom" THEN Branch(1, {"m", "Kzx", "Uz"})
        ELSE IF mmd = "quantization" THEN Branch(0, {})
        ELSE NoBranch
    ELSE NoBranch

(* The locals assigned before the branches (lines 76-91) *)
pkm_locals(cov, mmd) ==
    (IF nystrom_in(cov) \/ nystrom_in(mmd) THEN {"m"} ELSE {})
    \cup (IF \E ny \in {"nystrom1", "nystrom2", "nystrom3", "nystrom"} : ny \in {mmd, cov}
          THEN {"Uz"} ELSE {})
    \cup (IF ~(mmd = cov) \/ mmd = "nystrom" THEN {"Kzx"} ELSE {})

Raise(e) == [status |-> e, pkm |-> << >>]

(* compute_pkm(outliers_in_obs=None).  anchors: the names under               *)
(* spev['xy']['anchors']; basis: self.anchors_basis; m: the number of         *)
(* landmarks; product: the chain of mv(...) of the selected branch, which     *)
(* the Gram blocks, centering matrices and anchors determine.                 *)
compute_pkm(cov, mmd, anchors, basis, m, product) ==
    LET locals == pkm_locals(cov, mmd)
        b == pkm_branch(cov, mmd)
        anchor_name == basis \o ""
    IN  IF "Uz" \in locals /\ anchor_name \notin anchors THEN Raise("KeyError")
        ELSE IF ~(b.reads \subseteq locals) THEN Raise("UnboundLocalError")
        ELSE IF ~b.assigned THEN Raise("UnboundLocalError")
        ELSE [status |-> "ok",
              pkm |-> [i \in 1..Len(product) |->
                         RMul(RDiv(Rat(1), Rat(IPow(m, b.power))), Rat(product[i]))]]

-----------------------------------------------------------------------------
(* statistics.py : compute_kfdat *)

(* a variant of exposant that squares in every mode *)
exposant_always_2(cov) == 2

(* exposant = 2 if cov in [...] else 3 if cov == 'nystrom2' else 1 if ... *)
exposant(cov) ==
    IF cov \in {"standard", "nystrom1", "quantization"} THEN 2
    ELSE IF cov = "nystrom2" THEN 3
    ELSE IF cov = "nystrom3" THEN 1
    ELSE "erreur exposant"

(* t = len(sp) if t is None else len(sp) if len(sp)<t else t *)
truncation(t, sp) ==
    IF t = Nobody THEN Len(sp) ELSE IF Len(sp) < t[1] THEN Len(sp) ELSE t[1]

(* trunc = range(1,t+1) *)
range1(t) == [i \in 1..t |-> i]

(* ((n1*n2)/(n**exposant*sp[:t]**exposant)*mv(ev.T[:t],pkm)**2).numpy() *)
contributions(n1, n2, e, sp, ev, pkm, t) ==
    LET n == n1 + n2
        spt == Slice(sp, t)
        evt == Slice(Transpose(ev), t)
    IN  [p \in 1..Len(spt) |->
           RMul(RDiv(Rat(n1 * n2), RMul(Rat(IPow(n, e)), RPow(spt[p], e))),
                RPow(mv(evt, pkm)[p], 2))]

(* the key of the cached spectrum: f'{cov}{suffix_nystrom}{suffix_outliers}' *)
spectrum_key(cov, basis) == cov \o (IF nystrom_in(cov) THEN basis ELSE "") \o ""

overwrite_message(name) ==
    "ecrasement de " \o name \o " dans df_kfdat and df_kfdat_contributions"

(* compute_kfdat(t, name, outliers_in_obs=None) *)
(* What `last` records of a call: its arguments, how it ended, and the values *)
(* of its locals name (column), t (trunc), pkm, kfda and kfda_contributions   *)
Ended(op, t, name, status, column, trunc, pkm, kfda, contrib) ==
    [op |-> op, t |-> t, name |-> name, status |-> status, column |-> column,
     trunc |-> trunc, pkm |-> pkm, kfda |-> kfda, kfda_contributions |-> contrib,
     ordered_truncations |-> << >>, shared_anchors |-> << >>, mmd |-> << >>]

(* What compute_kfdat does when the cache is `cache` and the tables are df   *)
(* and dfc: the record of the call, what it prints and the tables it leaves. *)
compute_kfdat_on(cache, df, dfc, t, name) ==
    LET cov == approximation_cov
        mmd == approximation_mmd
        column == IF name # Nobody THEN name[1] ELSE cov \o mmd
        key == spectrum_key(cov, anchors_basis)
        failed(e) == [last |-> Ended("compute_kfdat", t, name, e, column, 0, << >>, << >>, << >>),
                      stdout |-> << >>, df_kfdat |-> df, df_kfdat_contributions |-> dfc]
    IN  IF key \notin DOMAIN cache.entries THEN failed("KeyError")
        ELSE
        LET sp == cache.entries[key].sp
            ev == cache.entries[key].ev
            tt == truncation(t, sp)
            r == compute_pkm(cov, mmd, cache.anchors, anchors_basis,
                             landmark_sizes[1] + landmark_sizes[2], gram_product)
        IN  IF r.status # "ok" THEN failed(r.status)
            ELSE IF cov \notin CovModes THEN failed("TypeError")
            ELSE
            LET kfda_contributions ==
                    contributions(sizes[1], sizes[2], exposant(cov), sp, ev, r.pkm, tt)
                kfda == cumsum(kfda_contributions)
                s1 == Series(kfda, range1(tt))
                s2 == Series(kfda_contributions, range1(tt))
            IN  [stdout |-> IF column \in Columns(df)
                            THEN <<overwrite_message(column)>> ELSE << >>,
                 df_kfdat |-> IF s1.status = "ok" THEN SetItem(df, column, s1.values) ELSE df,
                 df_kfdat_contributions |->
                     IF s1.status = "ok" /\ s2.status = "ok"
                     THEN SetItem(dfc, column, s2.values) ELSE dfc,
                 last |-> Ended("compute_kfdat", t, name,
                                IF s1.status # "ok" THEN s1.status ELSE s2.status,
                                column, tt, r.pkm, kfda, kfda_contributions)]

compute_kfdat(t, name) ==
    /\ \E r \in {compute_kfdat_on(spev, df_kfdat, df_kfdat_contributions, t, name)} :
          /\ last' = r.last
          /\ stdout' = r.stdout
          /\ df_kfdat' = r.df_kfdat
          /\ df_kfdat_contributions' = r.df_kfdat_contributions
    /\ ran' = << >>
    /\ UNCHANGED <<approximation_cov, approximation_mmd, sizes, landmark_sizes,
                   spev, anchors_basis, gram_product, args, returned,
                   dict_mmd, sample_anchors>>

(* a call of compute_pkm(outliers_in_obs=None) on the session *)
call_compute_pkm ==
    /\ \E r \in {compute_pkm(approximation_cov, approximation_mmd, spev.anchors,
                              anchors_basis, landmark_sizes[1] + landmark_sizes[2],
                              gram_product)} :
          last' = Ended("compute_pkm", Nobody, Nobody, r.status, "", 0, r.pkm, << >>, << >>)
    /\ stdout' = << >>
    /\ UNCHANGED <<approximation_cov, approximation_mmd, sizes, landmark_sizes, spev,
                   anchors_basis, gram_product, df_kfdat, df_kfdat_contributions,
                   args, returned, dict_mmd, sample_anchors>>
    /\ ran' = << >>

(* compute_nystrom_anchors(sample='xy'): puts the anchors of the current basis *)
(* in the cache; does nothing when they are there                             *)
compute_nystrom_anchors ==
    /\ anchors_basis \notin spev.anchors
    /\ spev' = [spev EXCEPT !.anchors = @ \cup {anchors_basis \o ""}]
    /\ last' = Ended("compute_nystrom_anchors", Nobody, Nobody, "ok", "", 0,
                     << >>, << >>, << >>)
    /\ stdout' = << >>
    /\ UNCHANGED <<approximation_cov, approximation_mmd, sizes, landmark_sizes,
                   anchors_basis, gram_product, df_kfdat, df_kfdat_contributions,
                   args, returned, dict_mmd, sample_anchors>>
    /\ ran' = << >>

-----------------------------------------------------------------------------
(* statistics.py : compute_kfdat_with_different_order *)

(* DataFrame.cumsum(), skipna=True: a nan stays where it is and is left out  *)
(* of the running sum                                                        *)
RECURSIVE sum_skipna(_, _)
sum_skipna(x, i) ==
    IF i = 0 THEN Rat(0)
    ELSE IF IsNaN(x[i]) THEN sum_skipna(x, i - 1)
    ELSE RAdd(sum_skipna(x, i - 1), x[i])

cumsum_skipna(x) == [i \in 1..Len(x) |-> IF IsNaN(x[i]) THEN NaN ELSE sum_skipna(x, i)]

(* kfda_contrib.T[ordered_truncations.tolist()].T : the rows at the labels   *)
(* of the list, in the order of the list                                     *)
rows_at(col, ordered_truncations) ==
    [k \in 1..Len(ordered_truncations) |-> col[ordered_truncations[k]]]

(* for c in kfda_contrib.columns: self.df_kfdat[f'{c}_between'] = kfda_between[c] *)
RECURSIVE assign_between(_, _, _)
assign_between(df, todo, kfda_between) ==
    IF todo = {} THEN df
    ELSE LET c == CHOOSE x \in todo : TRUE
         IN  assign_between(SetItem(df, c \o "_between", kfda_between[c]),
                            todo \ {c}, kfda_between)

(* the orderings get_ordered_spectrum_wrt_between_covariance_projection_error *)
(* may supply for a spectrum of d eigenvalues: the truncation indices 1..l   *)
(* of the l <= d directions it ranks, in any order                           *)
Orderings(d) ==
    UNION {{o \in [1..l -> 1..l] : \A i, j \in 1..l : o[i] = o[j] => i = j} : l \in 1..d}

(* compute_kfdat_with_different_order(order), ordered_truncations being what *)
(* get_ordered_spectrum_wrt_between_covariance_projection_error returns; a   *)
(* label that is not a level of df_kfdat_contributions is a KeyError         *)
compute_kfdat_with_different_order(order, ordered_truncations) ==
    LET kfda_contrib == df_kfdat_contributions
        ended(e) == [Ended("compute_kfdat_with_different_order", Nobody, Nobody, e, "", 0,
                           << >>, << >>, << >>)
                       EXCEPT !.ordered_truncations = ordered_truncations]
    IN  /\ IF order # "between"
           THEN /\ last' = ended("ok")
                /\ UNCHANGED df_kfdat
           ELSE IF \E k \in 1..Len(ordered_truncations) :
                      ordered_truncations[k] \notin 1..kfda_contrib.index
           THEN /\ last' = ended("KeyError")
                /\ UNCHANGED df_kfdat
           ELSE \E kfda_between \in
                      {[c \in Columns(kfda_contrib) |->
                          cumsum_skipna(rows_at(kfda_contrib.columns[c], ordered_truncations))]} :
                    /\ df_kfdat' = assign_between(df_kfdat, Columns(kfda_contrib), kfda_between)
                    /\ last' = ended("ok")
        /\ stdout' = << >>
        /\ ran' = << >>
        /\ UNCHANGED <<approximation_cov, approximation_mmd, sizes, landmark_sizes, spev,
                       anchors_basis, gram_product, df_kfdat_contributions, args, returned,
                       dict_mmd, sample_anchors>>

-----------------------------------------------------------------------------
(* Sessions *)

(* spectra as ordered_eigsy leaves them: eigenvalues in decreasing order *)
Spectra(d) == {s \in [1..d -> EigVals] : \A i \in 1..(d - 1) : s[i] >= s[i + 1]}

(* d orthonormal eigenvectors, as the columns of a matrix that is not symmetric *)
Eigenvectors(d) ==
    [i \in 1..d |-> [j \in 1..d |->
        IF j = (i % d) + 1 THEN (IF i = 1 THEN Rat(-1) ELSE Rat(1)) ELSE Rat(0)]]

RatSeq(s) == [i \in 1..Len(s) |-> Rat(s[i])]

Cache(cov, basis, sp, anchors) ==
    [entries |-> (spectrum_key(cov, basis) :> [sp |-> RatSeq(sp), ev |-> Eigenvectors(Len(sp))]),
     anchors |-> anchors]

GroupSizes == {z \in (1..MaxTotal) \X (1..MaxTotal) : z[1] + z[2] <= MaxTotal}

NoCall == Ended("none", Nobody, Nobody, "ok", "", 0, << >>, << >>, << >>)

(* no call of a centering / weighting function *)
NoArgs == [fn |-> "none"]
NotReturned == [status |-> "none", value |-> << >>]

(* A session as the Tester leaves it once the data are loaded and the Gram    *)
(* matrix of the active covariance mode is diagonalized: empty result tables, *)
(* the spectrum under its key, the anchors there when the spectrum needed     *)
(* them (or when `anchored`: compute_nystrom_anchors has run).                *)
Engine(group_sizes, landmarks, spectra, products, anchored) ==
    /\ approximation_cov \in CovModes
    /\ approximation_mmd \in MmdModes
    /\ anchors_basis \in {"w"}
    /\ sizes \in group_sizes
    /\ landmark_sizes \in landmarks[sizes]
    /\ \E sp \in spectra :
         /\ spev = Cache(approximation_cov, anchors_basis, sp,
                         IF anchored \/ nystrom_in(approximation_cov)
                         THEN {anchors_basis} ELSE {})
         /\ gram_product \in products[Len(sp)]
    /\ df_kfdat = EmptyFrame
    /\ df_kfdat_contributions = EmptyFrame
    /\ dict_mmd = << >>
    /\ sample_anchors = {}
    /\ ran = << >>
    /\ last = NoCall
    /\ stdout = << >>

(* a session on which no function of centering_operations.py is called *)
Session(group_sizes, landmarks, spectra, products, anchored) ==
    /\ Engine(group_sizes, landmarks, spectra, products, anchored)
    /\ args = NoArgs
    /\ returned = NotReturned

Truncations == {Nobody} \cup {Some(t) : t \in 0..(MaxSp + 1)}
NameArgs == {Nobody} \cup {Some(nm) : nm \in RunNames}

(* Spec: any sequence of calls on a session of n1 = 1 and n2 = 2 observations *)
(* with one landmark each, whose spectrum has the distinct eigenvalues        *)
(* 2^(d-1), ..., 2, 1 and whose product vector is (2, ..., 2)                 *)
Init ==
    Session({<<1, 2>>}, [z \in GroupSizes |-> {<<1, 1>>}],
            {[i \in 1..d |-> IPow(2, d - i)] : d \in 1..MaxSp},
            [d \in 1..MaxSp |-> {[i \in 1..d |-> 2]}], FALSE)

Next ==
    \/ \E t \in Truncations, name \in NameArgs : compute_kfdat(t, name)
    \/ call_compute_pkm
    \/ compute_nystrom_anchors

Spec == Init /\ [][Next]_vars

(* SpecFirstCall: the first compute_kfdat of a session, for all group sizes   *)
(* up to MaxTotal, the fewest and the most landmarks, every cached spectrum   *)
(* over EigVals and every product vector over ProductVals, the anchors        *)
(* computed                                                                   *)
InitFirstCall ==
    Session(GroupSizes, [z \in GroupSizes |-> {<<1, 1>>, z}],
            UNION {Spectra(d) : d \in 1..MaxSp},
            [d \in 1..MaxSp |-> [1..d -> ProductVals]], TRUE)

FirstCall ==
    /\ last = NoCall
    /\ \E t \in {Nobody, Some(1)} : compute_kfdat(t, Nobody)

SpecFirstCall == InitFirstCall /\ [][FirstCall]_vars

-----------------------------------------------------------------------------
(* centering_operations.py : matrices are sequences of rows of float64 *)

(* torch.ones(r, c) scaled by v, torch.zeros(r, c), torch.eye(n) *)
full(r, c, v) == [i \in 1..r |-> [j \in 1..c |-> v]]
zeros(r, c) == full(r, c, Rat(0))
eye(n) == [i \in 1..n |-> [j \in 1..n |-> IF i = j THEN Rat(1) ELSE Rat(0)]]

(* A + B and A - B, entry by entry *)
MatAdd(A, B) == [i \in 1..Len(A) |-> [j \in 1..Len(A[i]) |-> RAdd(A[i][j], B[i][j])]]
MatSub(A, B) ==
    [i \in 1..Len(A) |-> [j \in 1..Len(A[i]) |-> RAdd(A[i][j], RMul(Rat(-1), B[i][j]))]]

(* torch.cat(blocks, dim=0): the rows of the blocks, one block after the other *)
RECURSIVE cat_dim0(_)
cat_dim0(blocks) ==
    IF blocks = << >> THEN << >> ELSE Head(blocks) \o cat_dim0(Tail(blocks))

(* torch.cat(blocks, dim=1): row i is row i of each block, side by side *)
RECURSIVE cat_dim1(_)
cat_dim1(blocks) ==
    IF Len(blocks) = 1 THEN Head(blocks)
    ELSE [i \in 1..Len(Head(blocks)) |-> Head(blocks)[i] \o cat_dim1(Tail(blocks))[i]]

(* np.cumsum and np.sum on a list of int *)
RECURSIVE np_sum(_)
np_sum(x) == IF x = << >> THEN 0 ELSE Head(x) + np_sum(Tail(x))

np_cumsum(x) == [i \in 1..Len(x) |-> np_sum(SubSeq(x, 1, i))]

(* a variant of compute_Jn_by_n that is full of ones *)
compute_Jn_by_n_unscaled(n) == full(n, n, Rat(1))

(* 1/n*ones(n,n) *)
compute_Jn_by_n(n) == full(n, n, RMul(RDiv(Rat(1), Rat(n)), Rat(1)))

(* compute_diag_Jn_by_n(effectifs): the column blocks                        *)
(* [zeros(nprec,nell); Jn(nell); zeros(n-nprec-nell,nell)] side by side      *)
compute_diag_Jn_by_n(effectifs) ==
    LET cumul_effectifs == np_cumsum(<<0>> \o effectifs)
        L == Len(effectifs)
        n == np_sum(effectifs)
    IN  cat_dim1([l \in 1..L |->
            cat_dim0(<<zeros(cumul_effectifs[l], effectifs[l]),
                       compute_Jn_by_n(effectifs[l]),
                       zeros(n - cumul_effectifs[l] - effectifs[l], effectifs[l])>>)])

(* col.unique(): the values of the column in order of first appearance *)
RECURSIVE unique(_)
unique(col) ==
    IF col = << >> THEN << >>
    ELSE LET before == unique(SubSeq(col, 1, Len(col) - 1))
             c == col[Len(col)]
         IN  IF \E i \in 1..Len(before) : before[i] = c THEN before
             ELSE Append(before, c)

(* [col.index.get_loc(i) for i in col.loc[col==c].index]: the positions of   *)
(* the observations of category c, in the order of the column, counted       *)
(* from 1                                                                    *)
RECURSIVE positions(_, _)
positions(col, c) ==
    IF col = << >> THEN << >>
    ELSE LET before == positions(SubSeq(col, 1, Len(col) - 1), c)
         IN  IF col[Len(col)] = c THEN Append(before, Len(col)) ELSE before

(* effectifs = [len(col.loc[col == c]) for c in categories] *)
compute_effectifs(col) ==
    LET categories == unique(col)
    IN  [i \in 1..Len(categories) |-> Len(positions(col, categories[i]))]

(* a variant of block_indices that forgets the blocks placed before *)
block_indices_from_zero(col, size) ==
    LET categories == unique(col)
    IN  [p \in 1..size |->
            IF p > Len(col) THEN 1
            ELSE LET i == CHOOSE k \in 1..Len(categories) : categories[k] = col[p]
                     li == positions(col, categories[i])
                 IN  CHOOSE r \in 1..Len(li) : li[r] = p]

(* The array `permutation` at the end of the loop of                         *)
(* permute_matrix_to_respect_index_order (lines 98-103), `size` being        *)
(* len(M): position p of category i, the r-th of its category, holds         *)
(* cum_effectifs[i] + r, and a position no category assigned keeps its       *)
(* initial value (the first index).  Indices count from 1.                   *)
block_indices(col, size) ==
    LET effectifs == compute_effectifs(col)
        categories == unique(col)
        cum_effectifs == np_cumsum(<<0>> \o effectifs)
    IN  [p \in 1..size |->
            IF p > Len(col) THEN 1
            ELSE LET i == CHOOSE k \in 1..Len(categories) : categories[k] = col[p]
                     li == positions(col, categories[i])
                     r == CHOOSE k \in 1..Len(li) : li[k] = p
                 IN  cum_effectifs[i] + r]

(* M[permutation,:][:,permutation] *)
take(M, permutation) ==
    [a \in 1..Len(permutation) |->
        [b \in 1..Len(permutation) |-> M[permutation[a]][permutation[b]]]]

(* how a function of this file ends: a value returned or an exception raised *)
Returned(v) == [status |-> "ok", value |-> v]
Raised(e) == [status |-> e, value |-> << >>]

(* a variant of permute_matrix_to_respect_index_order that leaves M as it is *)
permute_matrix_not_at_all(M, col) ==
    IF Len(col) > Len(M) THEN Raised("IndexError") ELSE Returned(M)

(* permute_matrix_to_respect_index_order(M, col).  permutation[li] = ...     *)
(* raises IndexError when an observation of col has no row in M.             *)
permute_matrix_to_respect_index_order(M, col) ==
    IF Len(col) > Len(M) THEN Raised("IndexError")
    ELSE Returned(take(M, block_indices(col, Len(M))))

(* str.split(sep) on a string given as its sequence of characters *)
RECURSIVE split(_, _)
split(s, sep) ==
    IF \A i \in 1..Len(s) : s[i] # sep THEN <<s>>
    ELSE LET i == CHOOSE k \in 1..Len(s) :
                      s[k] = sep /\ \A j \in 1..(k - 1) : s[j] # sep
         IN  <<SubSeq(s, 1, i - 1)>> \o split(SubSeq(s, i + 1, Len(s)), sep)

(* the part of one effect: obs[effect], its block matrix put in the order of *)
(* the observations (lines 158-161, 170-173)                                  *)
effect_matrix(obs, effect) ==
    IF effect \notin DOMAIN obs THEN Raised("KeyError")
    ELSE LET col == obs[effect]
             effectifs == compute_effectifs(col)
             diag_Jn == compute_diag_Jn_by_n(effectifs)
         IN  permute_matrix_to_respect_index_order(diag_Jn, col)

(* the loop of lines 155-166 over the pieces of the combination *)
RECURSIVE combine(_, _, _)
combine(Pw, pieces, obs) ==
    IF pieces = << >> THEN Returned(Pw)
    ELSE LET piece == Head(pieces)
         IN  IF piece = << >> THEN Raised("IndexError")
             ELSE LET operation == piece[1]
                      effect == Tail(piece)
                      diag_Jn == effect_matrix(obs, effect)
                  IN  IF diag_Jn.status # "ok" THEN diag_Jn
                      ELSE combine(IF operation = "-" THEN MatSub(Pw, diag_Jn.value)
                                   ELSE IF operation = "+" THEN MatAdd(Pw, diag_Jn.value)
                                   ELSE Pw,
                                   Tail(pieces), obs)

(* compute_centering_matrix_with_respect_to_some_effects(self, center_by,    *)
(* outliers_in_obs=None).  self_center_by is the attribute self.center_by,   *)
(* center_by the parameter, obs the metadata table (column name -> column),  *)
(* n the number of observations.  The local that line 149 assigns is not     *)
(* read before the loop reassigns it: lines 154, 155 and 169 read the        *)
(* attribute.                                                                *)
compute_centering_matrix_with_respect_to_some_effects(self_center_by, center_by, obs, n) ==
    LET Pw == eye(n)
    IN  IF self_center_by = Nobody THEN Raised("TypeError")
        ELSE IF self_center_by[1] = << >> THEN Raised("IndexError")
        ELSE IF self_center_by[1][1] = "#"
             THEN combine(Pw, split(Tail(self_center_by[1]), "_"), obs)
        ELSE LET diag_Jn == effect_matrix(obs, self_center_by[1])
             IN  IF diag_Jn.status # "ok" THEN diag_Jn
                 ELSE Returned(MatSub(Pw, diag_Jn.value))

(* torch.bincount(x): how many times each of 0..max(x) occurs in x *)
bincount(x) ==
    LET top == CHOOSE v \in {x[i] : i \in 1..Len(x)} : \A i \in 1..Len(x) : x[i] <= v
    IN  IF x = << >> THEN << >>
        ELSE [k \in 1..(top + 1) |-> Cardinality({i \in 1..Len(x) : x[i] = k - 1})]

(* c * v for a vector v of counts *)
scaled(c, v) == [i \in 1..Len(v) |-> RMul(c, Rat(v[i]))]

(* c * ones(k) *)
ones(k, c) == [i \in 1..k |-> RMul(c, Rat(1))]

(* a variant of compute_omega whose 'xy' vector weighs every observation by 1/n *)
compute_omega_pooled(n1, n2, sample, quantization, xassignations, yassignations) ==
    IF sample = "xy"
    THEN Returned(ones(n1, RDiv(Rat(-1), Rat(n1 + n2))) \o ones(n2, RDiv(Rat(1), Rat(n1 + n2))))
    ELSE IF sample = "x" THEN Returned(ones(n1, RDiv(Rat(1), Rat(n1))))
    ELSE IF sample = "y" THEN Returned(ones(n2, RDiv(Rat(1), Rat(n2))))
    ELSE Returned(Nobody)

(* compute_omega(sample, quantization, outliers_in_obs=None), n1 and n2 as   *)
(* get_n1n2n gives them; any other sample falls out of the function, which   *)
(* returns None                                                              *)
compute_omega(n1, n2, sample, quantization, xassignations, yassignations) ==
    IF sample = "xy"
    THEN IF quantization
         THEN Returned(scaled(RDiv(Rat(-1), Rat(n1)), bincount(xassignations))
                       \o scaled(RDiv(Rat(1), Rat(n2)), bincount(yassignations)))
         ELSE LET m_mu1 == ones(n1, RDiv(Rat(-1), Rat(n1)))
                  m_mu2 == ones(n2, RDiv(Rat(1), Rat(n2)))
              IN  Returned(m_mu1 \o m_mu2)
    ELSE IF sample = "x" THEN Returned(ones(n1, RDiv(Rat(1), Rat(n1))))
    ELSE IF sample = "y" THEN Returned(ones(n2, RDiv(Rat(1), Rat(n2))))
    ELSE Returned(Nobody)


(* a variant of lower that leaves the capitals *)
lower_keeping_case(s) == s

(* str.lower() on the names of the anchor bases *)
lower(s) ==
    CASE s = "K" -> "k"
      [] s = "S" -> "s"
      [] s = "W" -> "w"
      [] OTHER -> s

(* Im - 1/m * Jm *)
centering(m) ==
    [i \in 1..m |-> [j \in 1..m |->
        RAdd(IF i = j THEN Rat(1) ELSE Rat(0),
             RMul(Rat(-1), RMul(RDiv(Rat(1), Rat(m)), Rat(1))))]]

(* In - 1/n * torch.ger(a, a) *)
weighted_centering(a, n) ==
    [i \in 1..Len(a) |-> [j \in 1..Len(a) |->
        RAdd(IF i = j THEN Rat(1) ELSE Rat(0),
             RMul(Rat(-1), RMul(RDiv(Rat(1), Rat(n)), RMul(a[i], a[j]))))]]

(* cat((cat((P1, z12), dim=1), cat((z21, P2), dim=1)), dim=0) *)
bloc_diagonal(P1, P2) ==
    cat_dim0(<<cat_dim1(<<P1, zeros(Len(P1), Len(P2))>>),
               cat_dim1(<<zeros(Len(P2), Len(P1)), P2>>)>>)

(* what compute_covariance_centering_matrix prints: the landmark branch      *)
(* prints and returns nothing for a basis that is not k, s or w               *)
covariance_centering_prints(basis, landmarks) ==
    IF landmarks /\ lower(basis) \notin {"k", "s", "w"}
    THEN <<"invalid anchor basis">> ELSE << >>

(* the part of compute_covariance_centering_matrix after the landmark        *)
(* branch (lines 235-260); n1, n2 are get_n1n2n(landmarks=quantization),     *)
(* a1, a2 the square roots of the quantization weights                        *)
data_centering(n1, n2, sample, quantization, a1, a2) ==
    LET n == n1 + n2
        Pn1 == IF quantization THEN weighted_centering(a1, n) ELSE centering(n1)
        Pn2 == IF quantization THEN weighted_centering(a2, n) ELSE centering(n2)
    IN  IF sample = "xy" THEN Returned(bloc_diagonal(Pn1, Pn2))
        ELSE IF sample = "x" THEN Returned(Pn1)
        ELSE IF sample = "y" THEN Returned(Pn2)
        ELSE Raised("UnboundLocalError")

(* a variant of compute_covariance_centering_matrix that fails on a basis     *)
(* that is not k, s or w instead of going on to the data-space part           *)
compute_covariance_centering_matrix_raising(n1, n2, m1, m2, basis, sample, quantization, landmarks, a1, a2) ==
    LET m == IF sample = "x" THEN m1 ELSE IF sample = "y" THEN m2 ELSE m1 + m2
        data == IF quantization
                THEN data_centering(m1, m2, sample, quantization, a1, a2)
                ELSE data_centering(n1, n2, sample, quantization, a1, a2)
    IN  IF ~landmarks THEN data
        ELSE IF lower(basis) = "k" THEN Returned(eye(m))
        ELSE IF lower(basis) = "s" THEN Returned(centering(m))
        ELSE IF lower(basis) = "w"
             THEN IF sample # "xy" THEN Raised("AssertionError")
                  ELSE Returned(bloc_diagonal(centering(m1), centering(m2)))
        ELSE Raised("ValueError")

(* compute_covariance_centering_matrix(sample, quantization, landmarks,      *)
(* outliers_in_obs=None); n1, n2 and m1, m2 are what get_n1n2n gives for the *)
(* data and for the landmarks, basis is self.anchors_basis                    *)
compute_covariance_centering_matrix(n1, n2, m1, m2, basis, sample, quantization, landmarks, a1, a2) ==
    LET m == IF sample = "x" THEN m1 ELSE IF sample = "y" THEN m2 ELSE m1 + m2
        data == IF quantization
                THEN data_centering(m1, m2, sample, quantization, a1, a2)
                ELSE data_centering(n1, n2, sample, quantization, a1, a2)
    IN  IF ~landmarks THEN data
        ELSE IF lower(basis) = "k" THEN Returned(eye(m))
        ELSE IF lower(basis) = "s" THEN Returned(centering(m))
        ELSE IF lower(basis) = "w"
             THEN IF sample # "xy" THEN Raised("AssertionError")
                  ELSE Returned(bloc_diagonal(centering(m1), centering(m2)))
        ELSE data

-----------------------------------------------------------------------------
(* Calls of the centering and weighting functions *)

(* label columns of n observations *)
LabelColumns(labels, n) == [1..n -> labels]

(* lists of positive group sizes that sum to n *)
RECURSIVE GroupLists(_)
GroupLists(n) ==
    IF n = 0 THEN {<< >>}
    ELSE UNION {{<<k>> \o rest : rest \in GroupLists(n - k)} : k \in 1..n}

(* the matrix whose entries are all distinct: entry (i, j) is n*(i-1) + j *)
Numbered(n) == [i \in 1..n |-> [j \in 1..n |-> Rat(n * (i - 1) + j)]]

(* the way a combination of effects is written: '#', then the terms          *)
(* sign + column name, joined by '_'                                         *)
RECURSIVE JoinTerms(_)
JoinTerms(terms) ==
    IF Len(terms) = 1 THEN <<terms[1][1]>> \o terms[1][2]
    ELSE <<terms[1][1]>> \o terms[1][2] \o <<"_">> \o JoinTerms(Tail(terms))

Combination(terms) == <<"#">> \o JoinTerms(terms)

Signs == {"+", "-"}
TermLists(names) == UNION {[1..k -> Signs \X names] : k \in 1..MaxTerms}

(* the table of the test application at the end of the file *)
TestObs ==
    (<<"c", "a", "t">> :> <<"0", "1", "1", "2", "0", "0", "1", "2", "2">>)
    @@ (<<"s", "e", "x", "e">> :> <<"M", "W", "W", "W", "M", "M", "W", "W", "W">>)

TestCenterBy ==
    Combination(<<<<"-", <<"c", "a", "t">>>>, <<"+", <<"s", "e", "x", "e">>>>>>)

(* the inputs of a call of compute_omega: any group sizes n1, n2 as           *)
(* get_n1n2n(outliers_in_obs) gives them, with the assignations of the       *)
(* observations to landmarks when quantization is asked.  The assignations   *)
(* are the attribute the landmark step left (initialize_kfdat runs it once,  *)
(* statistics.py:395-396): under a filter given afterwards they still cover  *)
(* the observation of the first group that the filter leaves out.            *)
OmegaArgs ==
    \E n1 \in 1..MaxGroup, n2 \in 1..MaxGroup :
        \/ \E s \in {"xy", "x", "y"} :
               args = [fn |-> "compute_omega", n1 |-> n1, n2 |-> n2, sample |-> s,
                       quantization |-> FALSE, outliers_in_obs |-> Nobody,
                       xassignations |-> << >>, yassignations |-> << >>]
        \/ \E xa \in [1..n1 -> LandmarkIds], ya \in [1..n2 -> LandmarkIds] :
               args = [fn |-> "compute_omega", n1 |-> n1, n2 |-> n2, sample |-> "xy",
                       quantization |-> TRUE, outliers_in_obs |-> Nobody,
                       xassignations |-> xa, yassignations |-> ya]
        \/ \E xa \in [1..(n1 + 1) -> LandmarkIds], ya \in [1..n2 -> LandmarkIds] :
               args = [fn |-> "compute_omega", n1 |-> n1, n2 |-> n2, sample |-> "xy",
                       quantization |-> TRUE, outliers_in_obs |-> Some("outlier"),
                       xassignations |-> xa, yassignations |-> ya]

(* the inputs of a call of compute_diag_Jn_by_n: any list of group sizes *)
DiagArgs ==
    \E n \in 1..MaxObs : \E e \in GroupLists(n) :
        args = [fn |-> "compute_diag_Jn_by_n", effectifs |-> e]

(* the inputs of a call of permute_matrix_to_respect_index_order: any label  *)
(* column, with its block matrix, the identity or a matrix of distinct       *)
(* entries, of the size of the column, one less or one more                  *)
PermuteArgs ==
    \E n \in 1..MaxObs : \E col \in LabelColumns(Labels, n) :
        \E M \in {compute_diag_Jn_by_n(compute_effectifs(col)), eye(n), Numbered(n),
                   Numbered(n - 1), Numbered(n + 1)} :
            args = [fn |-> "permute_matrix_to_respect_index_order", M |-> M, col |-> col]

(* the values of self.center_by: None, a column, a combination of effects *)
CenterBys ==
    {Nobody} \cup {Some(name) : name \in ColumnNames}
    \cup {Some(Combination(terms)) : terms \in TermLists(ColumnNames)}

(* the inputs of a call of                                                   *)
(* compute_centering_matrix_with_respect_to_some_effects: any table of two   *)
(* columns, any self.center_by, the parameter center_by left to None or      *)
(* given; and the test application                                           *)
EffectArgs ==
    \/ \E n \in 1..MaxRows : \E obs \in [ColumnNames -> LabelColumns(TwoLabels, n)] :
           \E attribute \in CenterBys :
               \E parameter \in {Nobody, Some(<<"B">>),
                                 Some(Combination(<<<<"-", <<"A">>>>, <<"+", <<"B">>>>>>))} :
                   args = [fn |-> "compute_centering_matrix_with_respect_to_some_effects",
                           self_center_by |-> attribute, center_by |-> parameter,
                           obs |-> obs, n |-> n]
    \/ args = [fn |-> "compute_centering_matrix_with_respect_to_some_effects",
               self_center_by |-> Some(TestCenterBy), center_by |-> Nobody,
               obs |-> TestObs, n |-> 9]

(* the inputs of a call of compute_covariance_centering_matrix: any sizes of *)
(* the groups and of their landmarks, any anchor basis, in data space or in  *)
(* landmark space; and, for quantization, any weights of the landmarks       *)
CovarianceCenteringArgs ==
    \/ \E n1 \in 1..MaxGroup, n2 \in 1..MaxGroup, m1 \in 1..MaxGroup, m2 \in 1..MaxGroup :
         \E basis \in AnchorBases, s \in {"xy", "x", "y"}, landmarks \in BOOLEAN :
           args = [fn |-> "compute_covariance_centering_matrix", n1 |-> n1, n2 |-> n2,
                   m1 |-> m1, m2 |-> m2, anchors_basis |-> basis, sample |-> s,
                   quantization |-> FALSE, landmarks |-> landmarks,
                   a1 |-> << >>, a2 |-> << >>]
    \/ \E m1 \in 1..MaxGroup, m2 \in 1..MaxGroup :
         \E a1 \in [1..m1 -> RootWeights], a2 \in [1..m2 -> RootWeights] :
           \E s \in {"xy", "x", "y"}, basis \in {"w", "z"}, landmarks \in BOOLEAN :
             args = [fn |-> "compute_covariance_centering_matrix", n1 |-> MaxGroup,
                     n2 |-> MaxGroup, m1 |-> m1, m2 |-> m2, anchors_basis |-> basis,
                     sample |-> s, quantization |-> TRUE, landmarks |-> landmarks,
                     a1 |-> a1, a2 |-> a2]

-----------------------------------------------------------------------------
(* statistics.py : compute_upk, kfdat, compute_mmd, mmd *)

(* a variant of getitem that inserts the key it does not find, as a          *)
(* defaultdict does                                                          *)
getitem_inserting(keys, key) == [found |-> TRUE, keys |-> keys \cup {key}]

(* d[key] on a dict whose keys are `keys`: whether the key is found (a       *)
(* KeyError when it is not), and the keys of the dict afterwards             *)
getitem(keys, key) == [found |-> key \in keys, keys |-> keys]

(* compute_upk(t, outliers_in_obs=None): every covariance mode assigns epk,   *)
(* a matrix of one row per observation and one column per eigenvector kept   *)
(* by ev.T[:t]; the Nystrom modes read the anchors                           *)
compute_upk(t) ==
    LET cov == approximation_cov
        key == spectrum_key(cov, anchors_basis)
        ended(e, columns) == Ended("compute_upk", Some(t), Nobody, e, "", columns,
                                   << >>, << >>, << >>)
    IN  /\ IF key \notin DOMAIN spev.entries
           THEN last' = ended("KeyError", 0) /\ UNCHANGED spev
           ELSE IF nystrom_in(cov)
           THEN \E Uz \in {getitem(spev.anchors, anchors_basis \o "")} :
                    /\ spev' = [spev EXCEPT !.anchors = Uz.keys]
                    /\ last' = IF Uz.found
                               THEN ended("ok", Len(Slice(Transpose(spev.entries[key].ev), t)))
                               ELSE ended("KeyError", 0)
           ELSE /\ last' = IF cov \in CovModes
                           THEN ended("ok", Len(Slice(Transpose(spev.entries[key].ev), t)))
                           ELSE ended("UnboundLocalError", 0)
                /\ UNCHANGED spev
        /\ stdout' = << >>
        /\ ran' = << >>
        /\ UNCHANGED <<approximation_cov, approximation_mmd, sizes, landmark_sizes,
                       anchors_basis, gram_product, df_kfdat, df_kfdat_contributions,
                       args, returned, dict_mmd, sample_anchors>>

(* a variant of already_computed that never finds the name *)
never_computed(name, names) == FALSE

(* if name in self.df_kfdat / if name in self.dict_mmd *)
already_computed(name, names) == name \in names

(* diagonalize_centered_gram(approximation=cov, sample): writes the          *)
(* decomposition of the centered Gram matrix under the key of cov; the data  *)
(* are those the entry of the session was computed from                      *)
diagonalize_centered_gram(cache) == [cache EXCEPT !.entries = cache.entries]

(* initialize_kfdat(sample='xy'): the cache it leaves and what it prints *)
initialize_kfdat(cache) ==
    LET cov == approximation_cov
        mmd_mode == approximation_mmd
        detected == \E ny \in {"nystrom1", "nystrom2", "nystrom3"} : ny \in {cov, mmd_mode}
    IN  [spev |-> diagonalize_centered_gram(
                      IF detected
                      THEN [cache EXCEPT !.anchors = @ \cup {anchors_basis \o ""}]
                      ELSE cache),
         stdout |-> IF detected THEN <<"nystrom detected">> ELSE << >>]

(* kfdat(t, name, verbose=0, outliers_in_obs=None).  select_trunc and        *)
(* compute_pval set self.t and the p-values, which the model does not hold.  *)
kfdat(t, name) ==
    LET cov == approximation_cov
        mmd_mode == approximation_mmd
        column == IF name # Nobody THEN name[1] ELSE cov \o mmd_mode
    IN  /\ IF already_computed(column, Columns(df_kfdat))
           THEN /\ last' = Ended("kfdat", t, name, "ok", column, 0, << >>, << >>, << >>)
                /\ stdout' = << >>
                /\ ran' = << >>
                /\ UNCHANGED <<spev, df_kfdat, df_kfdat_contributions>>
           ELSE \E init \in {initialize_kfdat(spev)} :
                \E r \in {compute_kfdat_on(init.spev, df_kfdat, df_kfdat_contributions,
                                            t, Some(column))} :
                    /\ spev' = init.spev
                    /\ df_kfdat' = r.df_kfdat
                    /\ df_kfdat_contributions' = r.df_kfdat_contributions
                    /\ stdout' = init.stdout \o r.stdout
                    /\ last' = [r.last EXCEPT !.op = "kfdat", !.name = name]
                    /\ ran' = IF r.last.status = "ok"
                              THEN <<"initialize_kfdat", "compute_kfdat",
                                     "select_trunc", "compute_pval">>
                              ELSE <<"initialize_kfdat", "compute_kfdat">>
        /\ UNCHANGED <<approximation_cov, approximation_mmd, sizes, landmark_sizes,
                       anchors_basis, gram_product, args, returned, dict_mmd,
                       sample_anchors>>

(* initialize_mmd(shared_anchors): the landmarks of a session are drawn; the *)
(* anchors are computed for the samples that have no 'anchors' entry         *)
initialize_mmd(cache, separate, shared_anchors) ==
    IF approximation_mmd = "nystrom"
    THEN IF shared_anchors
         THEN [spev |-> IF cache.anchors = {}
                        THEN [cache EXCEPT !.anchors = {anchors_basis \o ""}]
                        ELSE cache,
               sample_anchors |-> separate]
         ELSE [spev |-> cache, sample_anchors |-> separate \cup {"x", "y"}]
    ELSE [spev |-> cache, sample_anchors |-> separate]

(* what the kernel gives to compute_mmd: the Gram matrix K of the n          *)
(* observations for the standard mode, and for the other modes the inner     *)
(* products that the landmark blocks give: dot(psi_m, psi_m) or              *)
(* dot(mv(Km, mq), mq) (form), and with separate anchors dot(psix_mx,        *)
(* psix_mx) and dot(psiy_my, psiy_my) (form and form_y, here 1) and          *)
(* dot(psix_mx, Cpsiy_my) (cross)                                            *)
Grams(n) == {eye(n), full(n, n, Rat(1))}
KernelForms == {Rat(0), Rat(1)}

Kernels(approx, shared_anchors, n) ==
    IF approx = "standard"
    THEN {[K |-> k, form |-> Rat(0), form_y |-> Rat(0), cross |-> Rat(0)] : k \in Grams(n)}
    ELSE IF approx = "nystrom" /\ ~shared_anchors
    THEN {[K |-> << >>, form |-> Rat(1), form_y |-> Rat(1), cross |-> h] : h \in KernelForms}
    ELSE {[K |-> << >>, form |-> f, form_y |-> Rat(0), cross |-> Rat(0)] : f \in KernelForms}

(* K.masked_fill_(torch.eye(K.shape[0],K.shape[0]).byte(), 0) *)
masked_fill_diagonal(K) ==
    [i \in 1..Len(K) |-> [j \in 1..Len(K) |-> IF i = j THEN Rat(0) ELSE K[i][j]]]

(* name=f'{approx}' ; if approx == 'nystrom': name += 'shared' if shared_anchors else 'diff' *)
mmd_name(approx, shared_anchors, name) ==
    IF name # Nobody THEN name[1]
    ELSE approx \o (IF approx = "nystrom"
                     THEN (IF shared_anchors THEN "shared" ELSE "diff") ELSE "")

(* dict[name] = value *)
dict_set(dict, name, value) ==
    [k \in DOMAIN dict \cup {name} |-> IF k = name THEN value ELSE dict[k]]

(* What compute_mmd(unbiaised, shared_anchors, name, verbose=0) does when    *)
(* the cache is `cache`, the samples with anchors are `separate` and the     *)
(* dictionary is dict: how it ends, the local mmd, the name, and the         *)
(* dictionary and the cache it leaves.  In a mode that no branch tests, mmd  *)
(* is unassigned at line 546.                                                *)
compute_mmd_on(cache, separate, dict, unbiaised, shared_anchors, name, kernel) ==
    LET approx == approximation_mmd
        stored == mmd_name(approx, shared_anchors, name)
        Up == getitem(cache.anchors, anchors_basis \o "")
        Upx == getitem(separate, "x")
        Upy == getitem(Upx.keys, "y")
        failed(e, anchors, samples) ==
            [status |-> e, mmd |-> << >>, name |-> stored, dict_mmd |-> dict,
             spev |-> [cache EXCEPT !.anchors = anchors], sample_anchors |-> samples]
        done(v, anchors, samples) ==
            [status |-> "ok", mmd |-> Some(v), name |-> stored,
             dict_mmd |-> dict_set(dict, stored, v),
             spev |-> [cache EXCEPT !.anchors = anchors], sample_anchors |-> samples]
    IN  IF approx = "standard"
        THEN LET m == compute_omega(sizes[1], sizes[2], "xy", FALSE, << >>, << >>).value
                 K == IF unbiaised THEN masked_fill_diagonal(kernel.K) ELSE kernel.K
             IN  done(RPow(dot(mv(K, m), m), 2), cache.anchors, separate)
        ELSE IF approx = "nystrom" /\ shared_anchors
        THEN IF ~Up.found THEN failed("KeyError", Up.keys, separate)
             ELSE done(RPow(kernel.form, 2), Up.keys, separate)
        ELSE IF approx = "nystrom"
        THEN IF ~Upx.found THEN failed("KeyError", cache.anchors, Upx.keys)
             ELSE IF ~Upy.found THEN failed("KeyError", cache.anchors, Upy.keys)
             ELSE done(RAdd(RAdd(RPow(kernel.form, 2), RPow(kernel.form_y, 2)),
                            RMul(Rat(-2), kernel.cross)), cache.anchors, Upy.keys)
        ELSE IF approx = "quantization" THEN done(RPow(kernel.form, 2), cache.anchors, separate)
        ELSE failed("UnboundLocalError", cache.anchors, separate)

(* the record of a call of compute_mmd or mmd *)
EndedMmd(op, name, shared_anchors, r) ==
    [Ended(op, Nobody, name, r.status, r.name, 0, << >>, << >>, << >>)
       EXCEPT !.mmd = r.mmd, !.shared_anchors = Some(shared_anchors)]

compute_mmd(unbiaised, shared_anchors, name) ==
    /\ \E kernel \in Kernels(approximation_mmd, shared_anchors, sizes[1] + sizes[2]) :
       \E r \in {compute_mmd_on(spev, sample_anchors, dict_mmd, unbiaised, shared_anchors,
                                 name, kernel)} :
           /\ dict_mmd' = r.dict_mmd
           /\ spev' = r.spev
           /\ sample_anchors' = r.sample_anchors
           /\ last' = EndedMmd("compute_mmd", name, shared_anchors, r)
    /\ stdout' = << >>
    /\ ran' = << >>
    /\ UNCHANGED <<approximation_cov, approximation_mmd, sizes, landmark_sizes,
                   anchors_basis, gram_product, df_kfdat, df_kfdat_contributions,
                   args, returned>>

(* mmd(shared_anchors, name, unbiaised, verbose=0) *)
mmd(shared_anchors, name, unbiaised) ==
    LET stored == mmd_name(approximation_mmd, shared_anchors, name)
    IN  /\ IF already_computed(stored, DOMAIN dict_mmd)
           THEN /\ last' = EndedMmd("mmd", name, shared_anchors,
                                    [status |-> "ok", mmd |-> << >>, name |-> stored])
                /\ ran' = << >>
                /\ UNCHANGED <<spev, sample_anchors, dict_mmd>>
           ELSE \E init \in {initialize_mmd(spev, sample_anchors, shared_anchors)} :
                \E kernel \in Kernels(approximation_mmd, shared_anchors, sizes[1] + sizes[2]) :
                \E r \in {compute_mmd_on(init.spev, init.sample_anchors, dict_mmd, unbiaised,
                                          shared_anchors, Some(stored), kernel)} :
                    /\ spev' = r.spev
                    /\ sample_anchors' = r.sample_anchors
                    /\ dict_mmd' = r.dict_mmd
                    /\ last' = EndedMmd("mmd", name, shared_anchors, r)
                    /\ ran' = <<"initialize_mmd", "compute_mmd">>
        /\ stdout' = << >>
        /\ UNCHANGED <<approximation_cov, approximation_mmd, sizes, landmark_sizes,
                       anchors_basis, gram_product, df_kfdat, df_kfdat_contributions,
                       args, returned>>

(* SpecReordered: any sequence of compute_kfdat and                          *)
(* compute_kfdat_with_different_order on the sessions of Spec in the         *)
(* standard modes                                                            *)
InitReordered ==
    /\ Init
    /\ approximation_cov = "standard"
    /\ approximation_mmd = "standard"

NextReordered ==
    \/ \E t \in Truncations, name \in NameArgs : compute_kfdat(t, name)
    \/ \E ordered_truncations \in Orderings(MaxSp) :
           compute_kfdat_with_different_order("between", ordered_truncations)
    \/ compute_kfdat_with_different_order("within", << >>)

SpecReordered == InitReordered /\ [][NextReordered]_vars

(* SpecSession: any sequence of calls of the statistics, for every pair of   *)
(* modes, on a session of n1 = 1 and n2 = 2 observations with one landmark   *)
(* each whose spectrum is the one eigenvalue 1                               *)
InitSession ==
    Session({<<1, 2>>}, [z \in GroupSizes |-> {<<1, 1>>}], {<<1>>},
            [d \in 1..MaxSp |-> {<<2>>}], FALSE)

(* the arguments of compute_mmd and mmd that the mode of the session reads:  *)
(* unbiaised in the standard mode, shared_anchors in the nystrom mode        *)
Unbiaised == IF approximation_mmd = "standard" THEN BOOLEAN ELSE {FALSE}
SharedAnchors == IF approximation_mmd = "nystrom" THEN BOOLEAN ELSE {TRUE}

NextSession ==
    \/ \E name \in NameArgs : compute_kfdat(Nobody, name)
    \/ \E name \in NameArgs : kfdat(Nobody, name)
    \/ compute_kfdat_with_different_order("between", <<1>>)
    \/ call_compute_pkm
    \/ compute_upk(1)
    \/ \E unbiaised \in Unbiaised, shared_anchors \in SharedAnchors, name \in NameArgs :
           compute_mmd(unbiaised, shared_anchors, name)
    \/ \E shared_anchors \in SharedAnchors, name \in NameArgs :
           mmd(shared_anchors, name, FALSE)

SpecSession == InitSession /\ [][NextSession]_vars

(* the statistic engine at rest while the functions of centering_operations  *)
(* are called                                                                *)
EngineIdle ==
    /\ Engine({<<1, 1>>}, [z \in GroupSizes |-> {<<1, 1>>}], {<<1>>},
              [d \in 1..MaxSp |-> {<<2>>}], FALSE)
    /\ approximation_cov = "standard"
    /\ approximation_mmd = "standard"

EngineAtRest ==
    UNCHANGED <<approximation_cov, approximation_mmd, sizes, landmark_sizes, spev,
                anchors_basis, gram_product, df_kfdat, df_kfdat_contributions, last, stdout,
                dict_mmd, sample_anchors, ran>>

call_compute_omega ==
    /\ args.fn = "compute_omega" /\ returned = NotReturned
    /\ returned' = compute_omega(args.n1, args.n2, args.sample, args.quantization,
                                 args.xassignations, args.yassignations)
    /\ UNCHANGED args /\ EngineAtRest

call_compute_diag_Jn_by_n ==
    /\ args.fn = "compute_diag_Jn_by_n" /\ returned = NotReturned
    /\ returned' = Returned(compute_diag_Jn_by_n(args.effectifs))
    /\ UNCHANGED args /\ EngineAtRest

call_permute_matrix_to_respect_index_order ==
    /\ args.fn = "permute_matrix_to_respect_index_order" /\ returned = NotReturned
    /\ returned' = permute_matrix_to_respect_index_order(args.M, args.col)
    /\ UNCHANGED args /\ EngineAtRest

call_compute_centering_matrix_with_respect_to_some_effects ==
    /\ args.fn = "compute_centering_matrix_with_respect_to_some_effects"
    /\ returned = NotReturned
    /\ returned' = compute_centering_matrix_with_respect_to_some_effects(
                       args.self_center_by, args.center_by, args.obs, args.n)
    /\ UNCHANGED args /\ EngineAtRest

call_compute_covariance_centering_matrix ==
    /\ args.fn = "compute_covariance_centering_matrix" /\ returned = NotReturned
    /\ returned' = compute_covariance_centering_matrix(
                       args.n1, args.n2, args.m1, args.m2, args.anchors_basis,
                       args.sample, args.quantization, args.landmarks, args.a1, args.a2)
    /\ stdout' = covariance_centering_prints(args.anchors_basis, args.landmarks)
    /\ UNCHANGED <<args, approximation_cov, approximation_mmd, sizes, landmark_sizes,
                   spev, anchors_basis, gram_product, df_kfdat, df_kfdat_contributions,
                   last, dict_mmd, sample_anchors, ran>>

NextCentering ==
    \/ call_compute_omega
    \/ call_compute_diag_Jn_by_n
    \/ call_permute_matrix_to_respect_index_order
    \/ call_compute_centering_matrix_with_respect_to_some_effects
    \/ call_compute_covariance_centering_matrix

(* SpecCentering: one call of one function of centering_operations.py, on any *)
(* of the inputs above                                                        *)
InitCentering ==
    /\ EngineIdle
    /\ (OmegaArgs \/ DiagArgs \/ PermuteArgs \/ EffectArgs \/ CovarianceCenteringArgs)
    /\ returned = NotReturned

SpecCentering == InitCentering /\ [][NextCentering]_vars

-----------------------------------------------------------------------------
(* Claims on compute_kfdat and compute_pkm *)

(* the last call was a compute_kfdat that returned *)
Computed == last.op = "compute_kfdat" /\ last.status = "ok"

(* the spectrum compute_kfdat reads *)
ActiveSp == spev.entries[spectrum_key(approximation_cov, anchors_basis)].sp
ActiveEv == spev.entries[spectrum_key(approximation_cov, anchors_basis)].ev

(* C1, as claimed: for any cached spectrum, any pkm and every covariance     *)
(* mode, every contribution stored in df_kfdat_contributions[name] is >= 0    *)
(* and the series stored in df_kfdat[name] is non-decreasing in t.            *)
C1_EveryContributionNonNegative ==
    Computed =>
        LET c == df_kfdat_contributions.columns[last.column]
            k == df_kfdat.columns[last.column]
        IN  /\ \A p \in 1..Len(c) : RGeqZero(c[p])
            /\ \A p \in 1..(Len(k) - 1) : RLeq(k[p], k[p + 1])

(* C2: the contribution of direction p is                                     *)
(* (n1*n2) / (n^e * lambda_p^e) * (eigenvector_p . pkm)^2, with e = 2 for     *)
(* standard, nystrom1 and quantization, 3 for nystrom2, 1 for nystrom3,       *)
(* whatever the mmd mode.                                                     *)
ClaimedExponent(cov) ==
    CASE cov \in {"standard", "nystrom1", "quantization"} -> 2
      [] cov = "nystrom2" -> 3
      [] cov = "nystrom3" -> 1

ClaimedContribution(p) ==
    LET e == ClaimedExponent(approximation_cov)
        n == sizes[1] + sizes[2]
        eigenvector == [i \in 1..Len(ActiveEv) |-> ActiveEv[i][p]]
        proj == dot(eigenvector, last.pkm)
    IN  RMul(RDiv(Rat(sizes[1] * sizes[2]), Rat(IPow(n, e) * IPow(ActiveSp[p][1], e))),
             RMul(proj, proj))

C2_ContributionFormula ==
    Computed =>
        \A p \in 1..last.trunc :
            /\ last.kfda_contributions[p] = ClaimedContribution(p)
            /\ p <= df_kfdat_contributions.index =>
                 df_kfdat_contributions.columns[last.column][p] = ClaimedContribution(p)

(* a run in mode (nystrom2, quantization) whose second contribution is finite *)
(* and not zero                                                               *)
C2_Witness ==
    /\ Computed
    /\ approximation_cov = "nystrom2" /\ approximation_mmd = "quantization"
    /\ last.trunc = 2
    /\ ActiveSp[2][1] = 2
    /\ IsFinite(last.kfda_contributions[2]) /\ last.kfda_contributions[2][1] # 0

(* C3, as claimed: the effective truncation is len(sp) when t is None and     *)
(* min(t, len(sp)) otherwise, a t beyond the spectrum is no error (the call   *)
(* ends as compute_pkm does), and the series written under the name in both   *)
(* tables have exactly one entry per level 1..effective truncation.           *)
Min(a, b) == IF a < b THEN a ELSE b

(* the levels at which a column holds a value (nan is pandas' missing value) *)
Entries(col) == {p \in DOMAIN col : ~IsNaN(col[p])}

C3_ClampedOneEntryPerLevel ==
    last.op = "compute_kfdat" =>
        /\ last.status =
             compute_pkm(approximation_cov, approximation_mmd, spev.anchors, anchors_basis,
                         landmark_sizes[1] + landmark_sizes[2], gram_product).status
        /\ last.status = "ok" =>
             /\ last.trunc = IF last.t = Nobody THEN Len(ActiveSp)
                             ELSE Min(last.t[1], Len(ActiveSp))
             /\ Entries(last.kfda) = 1..last.trunc
             /\ Entries(last.kfda_contributions) = 1..last.trunc
             /\ Entries(df_kfdat.columns[last.column]) = 1..last.trunc
             /\ Entries(df_kfdat_contributions.columns[last.column]) = 1..last.trunc

C5_ReturnsOrRejects ==
    (last.op = "compute_pkm" /\ anchors_basis \in spev.anchors) =>
        last.status \in {"ok", "UnsupportedApproximationCombination"}

-----------------------------------------------------------------------------
(* Claims on centering_operations.py *)

(* the call of function fn has ended *)
Called(fn) == args.fn = fn /\ returned # NotReturned

RECURSIVE RSum(_)
RSum(v) == IF v = << >> THEN Rat(0) ELSE RAdd(Head(v), RSum(Tail(v)))

(* C6: compute_omega('xy') returns n1 entries -1/n1 followed by n2 entries    *)
(* 1/n2, the first block sums to -1, the second to +1 and the whole to 0;     *)
(* compute_omega('x') is n1 entries 1/n1 and compute_omega('y') n2 entries    *)
(* 1/n2, each summing to 1.                                                   *)
C6_OmegaWeights ==
    (Called("compute_omega") /\ ~args.quantization) =>
        LET n1 == args.n1
            n2 == args.n2
            omega == returned.value
        IN  /\ returned.status = "ok"
            /\ args.sample = "xy" =>
                 /\ Len(omega) = n1 + n2
                 /\ \A i \in 1..n1 : omega[i] = <<-1, n1>>
                 /\ \A i \in (n1 + 1)..(n1 + n2) : omega[i] = <<1, n2>>
                 /\ RSum(SubSeq(omega, 1, n1)) = Rat(-1)
                 /\ RSum(SubSeq(omega, n1 + 1, n1 + n2)) = Rat(1)
                 /\ RSum(omega) = Rat(0)
            /\ args.sample = "x" =>
                 /\ Len(omega) = n1
                 /\ \A i \in 1..n1 : omega[i] = <<1, n1>>
                 /\ RSum(omega) = Rat(1)
            /\ args.sample = "y" =>
                 /\ Len(omega) = n2
                 /\ \A i \in 1..n2 : omega[i] = <<1, n2>>
                 /\ RSum(omega) = Rat(1)

(* a difference of means was asked for two groups of different sizes, both    *)
(* of more than one observation                                               *)
C6_Witness ==
    /\ Called("compute_omega") /\ ~args.quantization /\ args.sample = "xy"
    /\ args.n1 > 1 /\ args.n2 > args.n1
    /\ returned.status = "ok"

(* how many observations of the column carry the label of observation a *)
CategorySize(col, a) == Cardinality({p \in 1..Len(col) : col[p] = col[a]})

(* the averaging matrix of a label column: 1/n_c between two observations of *)
(* the same category c, 0 between two observations of different categories   *)
Averaging(col) ==
    [a \in 1..Len(col) |-> [b \in 1..Len(col) |->
        IF col[a] = col[b] THEN <<1, CategorySize(col, a)>> ELSE Rat(0)]]

(* the combination was given by the parameter center_by when there is one,   *)
(* by the attribute otherwise                                                *)
GivenCombination == IF args.center_by # Nobody THEN args.center_by ELSE args.self_center_by

RECURSIVE SignedSum(_, _, _)
SignedSum(P, terms, obs) ==
    IF terms = << >> THEN P
    ELSE SignedSum(IF terms[1][1] = "+" THEN MatAdd(P, Averaging(obs[terms[1][2]]))
                   ELSE MatSub(P, Averaging(obs[terms[1][2]])),
                   Tail(terms), obs)

(* C7, as claimed: for every signed combination of metadata columns, given    *)
(* as '#' followed by the '_'-separated terms sign + column, the function     *)
(* returns the identity plus the sum over the terms of sign * P_column.       *)
C7_SignedCombination ==
    Called("compute_centering_matrix_with_respect_to_some_effects") =>
        \A terms \in TermLists(DOMAIN args.obs) :
            GivenCombination = Some(Combination(terms)) =>
                /\ returned.status = "ok"
                /\ returned.value = SignedSum(eye(args.n), terms, args.obs)

(* the matrix handed to permute_matrix_to_respect_index_order is the block   *)
(* matrix of the column                                                       *)
BlockMatrixPermuted ==
    /\ Called("permute_matrix_to_respect_index_order")
    /\ args.M = compute_diag_Jn_by_n(compute_effectifs(args.col))

(* C8: for a label column with the labels in any order, the block matrix of   *)
(* its group sizes, reordered by permute_matrix_to_respect_index_order, has   *)
(* entry (a, b) equal to 1/n_c when a and b are both in category c and 0      *)
(* otherwise.                                                                 *)
C8_ReorderedBlocksAverage ==
    BlockMatrixPermuted =>
        /\ returned.status = "ok"
        /\ returned.value = Averaging(args.col)

(* three categories, the observations of the first one separated by the      *)
(* others                                                                    *)
C8_Witness ==
    /\ BlockMatrixPermuted
    /\ returned.status = "ok"
    /\ Len(args.col) = MaxObs
    /\ Cardinality({args.col[p] : p \in 1..Len(args.col)}) = 3
    /\ args.col[1] = args.col[MaxObs] /\ args.col[1] # args.col[2]

(* C9: the index map built from the group sizes is a bijection on the n       *)
(* positions: the group sizes are positive and sum to n, each position        *)
(* receives one distinct block index, and permuting the identity (or any      *)
(* matrix) and then permuting by the inverse map gives the matrix back.       *)
C9_IndexMapBijective ==
    (Called("permute_matrix_to_respect_index_order") /\ Len(args.M) = Len(args.col)) =>
        LET col == args.col
            n == Len(col)
            permutation == block_indices(col, Len(args.M))
            effectifs == compute_effectifs(col)
            inverse == [q \in 1..n |-> CHOOSE p \in 1..n : permutation[p] = q]
        IN  /\ returned.status = "ok"
            /\ \A i \in 1..Len(effectifs) : effectifs[i] > 0
            /\ np_sum(effectifs) = n
            /\ Len(permutation) = n
            /\ {permutation[p] : p \in 1..n} = 1..n
            /\ take(take(eye(n), permutation), inverse) = eye(n)
            /\ take(returned.value, inverse) = args.M

(* a matrix of distinct entries was permuted by a map that moves positions *)
C9_Witness ==
    /\ Called("permute_matrix_to_respect_index_order")
    /\ returned.status = "ok"
    /\ args.M = Numbered(Len(args.col))
    /\ returned.value # args.M
    /\ Len(compute_effectifs(args.col)) = 3

(* A * B for square matrices *)
MatMul(A, B) ==
    [i \in 1..Len(A) |-> [j \in 1..Len(A) |-> dot(A[i], [k \in 1..Len(A) |-> B[k][j]])]]

(* C10: for any list of positive group sizes summing to n, the matrix         *)
(* D = compute_diag_Jn_by_n(sizes) is idempotent, D * D = D, and I - D sends  *)
(* the all-ones vector to zero.                                               *)
C10_BlockAveragingIdempotent ==
    Called("compute_diag_Jn_by_n") =>
        LET D == returned.value
            n == np_sum(args.effectifs)
        IN  /\ returned.status = "ok"
            /\ Len(D) = n /\ \A i \in 1..n : Len(D[i]) = n
            /\ MatMul(D, D) = D
            /\ mv(MatSub(eye(n), D), [i \in 1..n |-> Rat(1)]) = [i \in 1..n |-> Rat(0)]

(* several groups, of different sizes *)
C10_Witness ==
    /\ Called("compute_diag_Jn_by_n")
    /\ returned.status = "ok"
    /\ Len(args.effectifs) > 1
    /\ args.effectifs[1] > 1
    /\ args.effectifs[2] # args.effectifs[1]

(* C11, as claimed: when the dimension of M differs from the number of        *)
(* observations of the column, smaller or larger,                             *)
(* permute_matrix_to_respect_index_order fails and never returns a matrix.    *)
(* Any exception is counted as the failure.                                   *)
C11_MismatchAlwaysFails ==
    (Called("permute_matrix_to_respect_index_order") /\ Len(args.M) # Len(args.col)) =>
        returned.status # "ok"

(* the centering matrix of a value of center_by: I - P_column for a column,   *)
(* I + the signed sum of the P_column for a combination of effects            *)
CenteringMatrixOf(given, obs, n) ==
    IF given \in DOMAIN obs THEN MatSub(eye(n), Averaging(obs[given]))
    ELSE SignedSum(eye(n),
                   CHOOSE terms \in TermLists(DOMAIN obs) : Combination(terms) = given,
                   obs)

(* C12, as claimed: called with an explicit center_by argument, the function  *)
(* returns the centering matrix of that argument whatever self.center_by is;  *)
(* the attribute is used only when the argument is None.                      *)
C12_ArgumentOverridesAttribute ==
    Called("compute_centering_matrix_with_respect_to_some_effects") =>
        /\ args.center_by # Nobody =>
              returned = Returned(CenteringMatrixOf(args.center_by[1], args.obs, args.n))
        /\ (args.center_by = Nobody /\ args.self_center_by # Nobody) =>
              returned = Returned(CenteringMatrixOf(args.self_center_by[1], args.obs, args.n))

(* the landmark-space call of compute_covariance_centering_matrix has ended *)
LandmarkCentering ==
    Called("compute_covariance_centering_matrix") /\ args.landmarks

(* the size the claim gives to the matrix of a sample *)
SampleSize(sample, m1, m2) ==
    IF sample = "x" THEN m1 ELSE IF sample = "y" THEN m2 ELSE m1 + m2

(* C13: with landmarks=True, compute_covariance_centering_matrix returns,     *)
(* for the anchor basis K in either case, the identity of size m_s; for S,    *)
(* I - (1/m_s) J of size m_s, with m_s = m1 for 'x', m2 for 'y', m1 + m2 for  *)
(* 'xy'; for W and 'xy', the block-diagonal matrix of I - (1/m1) J and        *)
(* I - (1/m2) J with zero off-diagonal blocks; W with another sample is       *)
(* rejected.                                                                  *)
C13_LandmarkCenteringByBasis ==
    LandmarkCentering =>
        LET m1 == args.m1
            m2 == args.m2
            ms == SampleSize(args.sample, m1, m2)
            P == returned.value
        IN  /\ args.anchors_basis \in {"k", "K"} =>
                  returned = Returned([i \in 1..ms |-> [j \in 1..ms |->
                                          IF i = j THEN Rat(1) ELSE Rat(0)]])
            /\ args.anchors_basis \in {"s", "S"} =>
                  returned = Returned([i \in 1..ms |-> [j \in 1..ms |->
                                          Norm((IF i = j THEN ms ELSE 0) - 1, ms)]])
            /\ (args.anchors_basis \in {"w", "W"} /\ args.sample = "xy") =>
                  /\ returned.status = "ok"
                  /\ Len(P) = m1 + m2
                  /\ \A i \in 1..(m1 + m2) :
                        /\ Len(P[i]) = m1 + m2
                        /\ \A j \in 1..(m1 + m2) :
                              P[i][j] =
                                IF i <= m1 /\ j <= m1
                                THEN Norm((IF i = j THEN m1 ELSE 0) - 1, m1)
                                ELSE IF i > m1 /\ j > m1
                                THEN Norm((IF i = j THEN m2 ELSE 0) - 1, m2)
                                ELSE Rat(0)
            /\ (args.anchors_basis \in {"w", "W"} /\ args.sample # "xy") =>
                  returned.status # "ok"

(* the basis was given in capitals, for the two groups together, with        *)
(* different numbers of landmarks                                             *)
C13_Witness ==
    /\ LandmarkCentering
    /\ args.anchors_basis = "W" /\ args.sample = "xy"
    /\ args.m1 > 1 /\ args.m2 > args.m1
    /\ returned.status = "ok"

(* the quantized difference of means was asked *)
QuantizedOmega ==
    Called("compute_omega") /\ args.sample = "xy" /\ args.quantization

(* how many of the assignations are to landmark k *)
Assigned(assignations, k) ==
    Cardinality({i \in 1..Len(assignations) : assignations[i] = k})

(* the number of landmarks that torch.bincount counts: the largest index    *)
(* assigned, plus one                                                        *)
Counted(assignations) ==
    1 + CHOOSE k \in LandmarkIds :
            /\ Assigned(assignations, k) > 0
            /\ \A l \in LandmarkIds : Assigned(assignations, l) > 0 => l <= k

(* C14, as claimed: for every call of compute_omega('xy', quantization=True), *)
(* with or without an outlier filter and for any assignment of the            *)
(* observations to landmarks, each entry is the number of observations        *)
(* assigned to that landmark over n_i, with a minus sign in the first group,  *)
(* so the first block sums to -1 and the second block to +1.                  *)
C14_QuantizedWeightsKeepMass ==
    QuantizedOmega =>
        LET omega == returned.value
            k1 == Counted(args.xassignations)
            k2 == Counted(args.yassignations)
        IN  /\ returned.status = "ok"
            /\ Len(omega) = k1 + k2
            /\ \A k \in 1..k1 :
                  omega[k] = Norm(-Assigned(args.xassignations, k - 1), args.n1)
            /\ \A k \in 1..k2 :
                  omega[k1 + k] = Norm(Assigned(args.yassignations, k - 1), args.n2)
            /\ RSum(SubSeq(omega, 1, k1)) = Rat(-1)
            /\ RSum(SubSeq(omega, k1 + 1, k1 + k2)) = Rat(1)

(* the sum, in float64, of the values of a column at the first k indices of  *)
(* an ordering                                                               *)
RECURSIVE OrderedSum(_, _, _)
OrderedSum(col, ordering, k) ==
    IF k = 1 THEN col[ordering[1]]
    ELSE RAdd(OrderedSum(col, ordering, k - 1), col[ordering[k]])

(* the ordering ranks all the levels 1..K *)
PermutationOfAll(ordering, K) ==
    Len(ordering) = K /\ {ordering[i] : i \in 1..Len(ordering)} = 1..K

BetweenColumns(df) == {c \o "_between" : c \in Columns(df)}

(* C15, as claimed: a compute_kfdat_with_different_order(order='between')    *)
(* that returns has written, for each column c of df_kfdat_contributions, a  *)
(* column 'c_between' of df_kfdat whose k-th value is the sum of c's         *)
(* contributions at the first k indices of the ordering; it has left         *)
(* df_kfdat_contributions and the other columns of df_kfdat as they were;    *)
(* and when the ordering ranks all the levels, the last value of 'c_between' *)
(* is the last value of df_kfdat[c].                                         *)
C15_ReorderedCumulativeSums ==
    [][ (/\ last'.op = "compute_kfdat_with_different_order"
         /\ last'.status = "ok"
         /\ last'.ordered_truncations # << >>) =>
          LET ordering == last'.ordered_truncations
          IN  /\ df_kfdat_contributions' = df_kfdat_contributions
              /\ \A c \in Columns(df_kfdat_contributions) :
                    /\ c \o "_between" \in Columns(df_kfdat')
                    /\ \A k \in 1..Len(ordering) :
                          df_kfdat'.columns[c \o "_between"][k] =
                              OrderedSum(df_kfdat_contributions.columns[c], ordering, k)
                    /\ PermutationOfAll(ordering, df_kfdat_contributions.index) =>
                          df_kfdat'.columns[c \o "_between"][Len(ordering)] =
                              df_kfdat.columns[c][df_kfdat.index]
              /\ \A e \in Columns(df_kfdat) \ BetweenColumns(df_kfdat_contributions) :
                    df_kfdat'.columns[e] = df_kfdat.columns[e]
      ]_vars

(* the name under which a call of mmd or compute_mmd keeps its result: the   *)
(* name given, or the mode, followed by 'shared' or 'diff' in the nystrom    *)
(* mode                                                                      *)
ClaimedMmdName(given, shared) ==
    IF given # Nobody THEN given[1]
    ELSE IF approximation_mmd = "nystrom"
         THEN (IF shared THEN "nystromshared" ELSE "nystromdiff")
         ELSE approximation_mmd

(* C16: a step of mmd on a name that dict_mmd holds calls nothing and leaves *)
(* dict_mmd and the cache as they were; on a name that it does not hold it   *)
(* calls initialize_mmd, then compute_mmd.  A step of kfdat on a name that   *)
(* df_kfdat holds calls nothing and leaves the tables and the cache as they  *)
(* were; on a name that it does not hold it calls initialize_kfdat, then     *)
(* compute_kfdat, then (when compute_kfdat returned) select_trunc and        *)
(* compute_pval.                                                             *)
C16_ComputedOnlyWhenAbsent ==
    [][ /\ last'.op = "mmd" =>
              LET name == ClaimedMmdName(last'.name, last'.shared_anchors[1])
              IN  IF name \in DOMAIN dict_mmd
                  THEN /\ ran' = << >>
                       /\ dict_mmd' = dict_mmd
                       /\ spev' = spev /\ sample_anchors' = sample_anchors
                  ELSE ran' = <<"initialize_mmd", "compute_mmd">>
        /\ last'.op = "kfdat" =>
              LET name == IF last'.name # Nobody THEN last'.name[1]
                          ELSE approximation_cov \o approximation_mmd
              IN  IF name \in Columns(df_kfdat)
                  THEN /\ ran' = << >>
                       /\ df_kfdat' = df_kfdat
                       /\ df_kfdat_contributions' = df_kfdat_contributions
                       /\ spev' = spev /\ sample_anchors' = sample_anchors
                  ELSE ran' = IF last'.status = "ok"
                              THEN <<"initialize_kfdat", "compute_kfdat",
                                     "select_trunc", "compute_pval">>
                              ELSE <<"initialize_kfdat", "compute_kfdat">>
      ]_vars

(* mmd found its name in dict_mmd and called nothing, in a session where     *)
(* kfdat has computed a statistic before                                     *)
C16_Witness ==
    /\ last.op = "mmd" /\ ran = << >>
    /\ last.column \in DOMAIN dict_mmd
    /\ Columns(df_kfdat) # {}

(* C17, as claimed: a compute_mmd that returns has stored its result under   *)
(* the name given, or under the mode followed by 'shared' or 'diff' in the   *)
(* nystrom mode, the other entries of dict_mmd being as they were; and when  *)
(* dict_mmd held that name already, the overwrite is printed.                *)
C17_StoredAndOverwriteLogged ==
    [][ (last'.op = "compute_mmd" /\ last'.status = "ok") =>
          LET name == ClaimedMmdName(last'.name, last'.shared_anchors[1])
          IN  /\ DOMAIN dict_mmd' = DOMAIN dict_mmd \cup {name}
              /\ dict_mmd'[name] = last'.mmd[1]
              /\ \A o \in DOMAIN dict_mmd \ {name} : dict_mmd'[o] = dict_mmd[o]
              /\ name \in DOMAIN dict_mmd => stdout' # << >>
      ]_vars

(* the operations that only read the cache *)
Readers == {"compute_pkm", "compute_upk", "compute_kfdat",
            "compute_kfdat_with_different_order", "compute_mmd"}

(* C18: a step of compute_pkm, compute_upk, compute_kfdat,                   *)
(* compute_kfdat_with_different_order or compute_mmd leaves the cache as it  *)
(* was: same keys, same eigenvalues and eigenvectors, same anchors.          *)
C18_CacheOnlyRead ==
    [][ last'.op \in Readers => (spev' = spev /\ sample_anchors' = sample_anchors) ]_vars

(* compute_mmd has looked for anchors that the cache does not hold *)
C18_Witness ==
    /\ last.op = "compute_mmd" /\ last.status = "KeyError"
    /\ spev.anchors = {}
    /\ dict_mmd = << >>

(* the sum of the values of a column at the levels 1..t *)
RECURSIVE SumOfLevels(_, _)
SumOfLevels(col, t) == IF t = 0 THEN Rat(0) ELSE RAdd(SumOfLevels(col, t - 1), col[t])

(* C19: after any sequence of calls, df_kfdat and df_kfdat_contributions     *)
(* hold the same names over the same levels, the value of df_kfdat[name] at  *)
(* level t is the sum of the values of df_kfdat_contributions[name] at the   *)
(* levels 1..t, and the two columns under the name of the latest             *)
(* compute_kfdat are the two series of that call.                            *)
C19_TablesAgree ==
    /\ Columns(df_kfdat) = Columns(df_kfdat_contributions)
    /\ df_kfdat.index = df_kfdat_contributions.index
    /\ \A name \in Columns(df_kfdat) : \A t \in 1..df_kfdat.index :
           df_kfdat.columns[name][t] =
               SumOfLevels(df_kfdat_contributions.columns[name], t)
    /\ Computed =>
           /\ df_kfdat.columns[last.column] = Reindex(last.kfda, df_kfdat.index)
           /\ df_kfdat_contributions.columns[last.column] =
                  Reindex(last.kfda_contributions, df_kfdat.index)

(* two names are stored over two levels, and under the latest one the        *)
(* second direction contributes                                              *)
C19_Witness ==
    /\ Computed
    /\ Cardinality(Columns(df_kfdat)) = 2
    /\ df_kfdat.index = 2
    /\ IsFinite(df_kfdat.columns[last.column][2])
    /\ df_kfdat.columns[last.column][2] # df_kfdat.columns[last.column][1]

(* the power of m in the prefactor that the covariance mode fixes *)
ClaimedPower(cov) ==
    IF cov = "nystrom1" THEN 2 ELSE IF cov = "nystrom2" THEN 3 ELSE 1

(* C20, as claimed: when compute_pkm returns in a covariance mode nystrom1,  *)
(* nystrom2 or nystrom3, whatever the mmd mode of the branch, pkm is the     *)
(* landmark-substituted product times 1/m^2, 1/m^3 or 1/m respectively, m    *)
(* the number of landmarks.                                                  *)
C20_PrefactorFixedByCov ==
    (/\ last.op = "compute_pkm" /\ last.status = "ok"
     /\ approximation_cov \in {"nystrom1", "nystrom2", "nystrom3"}) =>
        LET m == landmark_sizes[1] + landmark_sizes[2]
            prefactor == RDiv(Rat(1), Rat(IPow(m, ClaimedPower(approximation_cov))))
        IN  /\ Len(last.pkm) = Len(gram_product)
            /\ \A i \in 1..Len(gram_product) :
                   last.pkm[i] = RMul(prefactor, Rat(gram_product[i]))

(* the pairs of modes in which compute_pkm reads the anchors of the cache *)
PkmReadsAnchors ==
    {approximation_cov, approximation_mmd}
        \cap {"nystrom", "nystrom1", "nystrom2", "nystrom3"} # {}

(* C21, as claimed: in a step of kfdat that computes (the name is not in     *)
(* df_kfdat) on a cache without anchors, in a pair of modes in which         *)
(* compute_pkm reads the anchors, initialize_kfdat has taken its nystrom     *)
(* branch, which computes the landmarks and the anchors: the anchors of the  *)
(* basis are in the cache and compute_pkm finds them.                        *)
C21_AnchorsBeforePkm ==
    [][ (/\ last'.op = "kfdat" /\ ran' # << >>
         /\ spev.anchors = {}
         /\ PkmReadsAnchors) =>
          /\ stdout' # << >> /\ stdout'[1] = "nystrom detected"
          /\ anchors_basis \in spev'.anchors
          /\ last'.status # "KeyError"
      ]_vars

(* compute_covariance_centering_matrix was called with landmarks=True and an  *)
(* anchor basis that is none of k, s, w in either case                        *)
InvalidBasisCall ==
    /\ Called("compute_covariance_centering_matrix") /\ args.landmarks
    /\ args.anchors_basis \notin {"k", "K", "s", "S", "w", "W"}

(* the entry (i, j) of I - (1/n) J *)
MeanCentered(i, j, n) == Norm((IF i = j THEN n ELSE 0) - 1, n)

(* the data-space centering matrix of a sample for groups of g1 and g2        *)
(* observations: I - (1/g1) J for 'x', I - (1/g2) J for 'y', the two as       *)
(* diagonal blocks for 'xy'                                                   *)
DataSpaceCentering(sample, g1, g2) ==
    LET size == SampleSize(sample, g1, g2)
    IN  [i \in 1..size |-> [j \in 1..size |->
            IF sample = "x" THEN MeanCentered(i, j, g1)
            ELSE IF sample = "y" THEN MeanCentered(i, j, g2)
            ELSE IF i <= g1 /\ j <= g1 THEN MeanCentered(i, j, g1)
            ELSE IF i > g1 /\ j > g1 THEN MeanCentered(i - g1, j - g1, g2)
            ELSE Rat(0)]]

(* the entry (i, j) of I - (1/total) a a^T *)
WeightCentered(i, j, a, total) ==
    RAdd(IF i = j THEN Rat(1) ELSE Rat(0),
         RMul(<<-1, total>>, RMul(a[i], a[j])))

(* the centering matrix of the quantization: as DataSpaceCentering over the   *)
(* landmarks, with the products of the root weights a1, a2 over the number of *)
(* landmarks in place of the group means                                      *)
QuantizedCentering(sample, a1, a2) ==
    LET g1 == Len(a1)
        g2 == Len(a2)
        size == SampleSize(sample, g1, g2)
    IN  [i \in 1..size |-> [j \in 1..size |->
            IF sample = "x" THEN WeightCentered(i, j, a1, g1 + g2)
            ELSE IF sample = "y" THEN WeightCentered(i, j, a2, g1 + g2)
            ELSE IF i <= g1 /\ j <= g1 THEN WeightCentered(i, j, a1, g1 + g2)
            ELSE IF i > g1 /\ j > g1 THEN WeightCentered(i - g1, j - g1, a2, g1 + g2)
            ELSE Rat(0)]]

(* C22, as claimed: called with landmarks=True and an anchor basis that is    *)
(* none of k, s, w, compute_covariance_centering_matrix prints 'invalid       *)
(* anchor basis', does not raise, and returns the data-space centering matrix *)
(* sized by the data group sizes n1, n2.                                      *)
C22_InvalidBasisGivesDataMatrix ==
    InvalidBasisCall =>
        /\ stdout = <<"invalid anchor basis">>
        /\ returned = Returned(DataSpaceCentering(args.sample, args.n1, args.n2))

(* C22, amended: called with landmarks=True and an anchor basis that is none  *)
(* of k, s, w, compute_covariance_centering_matrix prints 'invalid anchor     *)
(* basis', does not raise, and returns what it returns with landmarks=False:  *)
(* without quantization the data-space centering matrix sized by the data     *)
(* group sizes n1, n2; with quantization the weighted centering matrix of the *)
(* quantization, sized by the numbers of landmarks m1, m2.                    *)
C22_InvalidBasisFallsThrough ==
    InvalidBasisCall =>
        /\ stdout = <<"invalid anchor basis">>
        /\ returned.status = "ok"
        /\ ~args.quantization =>
              returned.value = DataSpaceCentering(args.sample, args.n1, args.n2)
        /\ args.quantization =>
              /\ returned.value = QuantizedCentering(args.sample, args.a1, args.a2)
              /\ Len(returned.value) = SampleSize(args.sample, args.m1, args.m2)

(* an invalid basis with landmarks=True on groups larger than their landmark  *)
(* sets: the matrix returned has the size of the data                         *)
C22_Witness ==
    /\ InvalidBasisCall /\ ~args.quantization /\ args.sample = "xy"
    /\ args.n1 > args.m1 /\ args.n2 > args.m2
    /\ returned.status = "ok"
    /\ Len(returned.value) = args.n1 + args.n2
    /\ stdout = <<"invalid anchor basis">>

====
